---- MODULE Spec2Model ----
(***************************************************************************)
(* ValidTyped: the validator algebra of src/src/index.ts (and its later    *)
(* revision in src/unnamed/part_008, lines 205-784, which adds nil,        *)
(* withOptions and orNull), on top of the JSON-schema engine Ajv 6.        *)
(*                                                                         *)
(* A schema document is a function from keyword names to keyword values.   *)
(* A datum is a tagged record [t |-> kind, v |-> payload].                 *)
(***************************************************************************)
EXTENDS Integers, Sequences, FiniteSets, TLC

VARIABLES heap, engines, last

vars == <<heap, engines, last>>

(***************************************************************************)
(* Bounds of the model.                                                    *)
(***************************************************************************)
MaxCached == 1
MaxValidators == 2
MaxBuilt == 2

MaxObjects == 1
MaxUnion == 2
MaxCompiles == 2

(***************************************************************************)
(* Data: the untyped inputs handed to isValid / validate.                  *)
(***************************************************************************)
JNull == [t |-> "null", v |-> 0]
JBool(b) == [t |-> "bool", v |-> b]
JNum(n) == [t |-> "num", v |-> n]
JStr(s) == [t |-> "str", v |-> s]
JArr(a) == [t |-> "arr", v |-> a]
JObj(o) == [t |-> "obj", v |-> o]
JUndefined == [t |-> "undefined", v |-> 0]
JFunction == [t |-> "function", v |-> 0]

EmptyMap == [k \in {} |-> 0]

Inputs ==
  << JNull,
     JStr("a"),
     JStr("d"),
     JNum(22),
     JBool(FALSE),
     JArr(<<>>),
     JArr(<<JNum(22)>>),
     JArr(<<JNum(22), JStr("a")>>),
     JArr(<<JStr("a"), JNum(22)>>),
     JArr(<<JNum(21), JNum(22)>>),
     JObj(EmptyMap),
     JObj([a |-> JStr("a")]),
     JObj([a |-> JNum(22)]),
     JObj([b |-> JNum(22)]),
     JObj([a |-> JStr("a"), b |-> JNum(22)]),
     JObj([a |-> JStr("a"), c |-> JBool(FALSE)]),
     JUndefined,
     JFunction,
     JObj([a |-> JNum(22), b |-> JNum(22)]),
     JObj([a |-> JStr("a"), b |-> JStr("a")]),
     JArr(<<JArr(<<JNum(21), JNum(22)>>), JArr(<<>>)>>),
     JArr(<<JArr(<<>>)>>),
     JObj([a |-> JArr(<<>>)]) >>

ArrayInputs == {2} \cup (6..10)
ObjectInputs == {2, 11, 12, 13, 15, 16}

(***************************************************************************)
(* Schema documents.                                                       *)
(***************************************************************************)
EmptySchema == [k \in {} |-> 0]

\* JavaScript object spread {...a, ...b}: the keys of b win.
Spread(a, b) == b @@ a

Has(s, k) == k \in DOMAIN s

IdxName == <<"0", "1", "2", "3">>

SeqRange(q) == {q[i] : i \in 1..Len(q)}

(***************************************************************************)
(* The engine (Ajv 6, draft-07, default options): which schema documents   *)
(* compile, which data a compiled matcher accepts, and the error list it   *)
(* leaves in matcher.errors.                                               *)
(***************************************************************************)
RECURSIVE WellFormed(_)
WellFormed(s) ==
  /\ Has(s, "oneOf") =>
       /\ Len(s["oneOf"]) >= 1
       /\ \A i \in 1..Len(s["oneOf"]) : WellFormed(s["oneOf"][i])
  /\ Has(s, "allOf") =>
       /\ Len(s["allOf"]) >= 1
       /\ \A i \in 1..Len(s["allOf"]) : WellFormed(s["allOf"][i])
  /\ Has(s, "items") =>
       /\ Len(s["items"]) >= 1
       /\ \A i \in 1..Len(s["items"]) : WellFormed(s["items"][i])
  /\ Has(s, "properties") =>
       \A k \in DOMAIN s["properties"] : WellFormed(s["properties"][k])
  /\ Has(s, "additionalProperties") => WellFormed(s["additionalProperties"])
  /\ Has(s, "minItems") => s["minItems"] >= 0

CheckDataType(ty, x) ==
  CASE ty = "string" -> x.t = "str"
    [] ty = "number" -> x.t = "num"
    [] ty = "boolean" -> x.t = "bool"
    [] ty = "null" -> x.t = "null"
    [] ty = "object" -> x.t = "obj"
    [] ty = "array" -> x.t = "arr"
    [] OTHER -> FALSE

InEnum(e, x) == x.t = "str" /\ \E i \in 1..Len(e) : e[i] = x.v

RECURSIVE Accepts(_, _)
Accepts(s, x) ==
  /\ Has(s, "type") => CheckDataType(s["type"], x)
  /\ (Has(s, "minItems") /\ x.t = "arr") => Len(x.v) >= s["minItems"]
  /\ (Has(s, "items") /\ x.t = "arr") =>
       \A i \in 1..Len(s["items"]) :
          i <= Len(x.v) => Accepts(s["items"][i], x.v[i])
  /\ (Has(s, "required") /\ x.t = "obj") =>
       \A i \in 1..Len(s["required"]) : s["required"][i] \in DOMAIN x.v
  /\ (Has(s, "additionalProperties") /\ x.t = "obj") =>
       \A k \in DOMAIN x.v :
          (~Has(s, "properties") \/ k \notin DOMAIN s["properties"])
             => Accepts(s["additionalProperties"], x.v[k])
  /\ (Has(s, "properties") /\ x.t = "obj") =>
       \A k \in DOMAIN s["properties"] :
          k \in DOMAIN x.v => Accepts(s["properties"][k], x.v[k])
  /\ Has(s, "enum") => InEnum(s["enum"], x)
  /\ Has(s, "oneOf") =>
       Cardinality({i \in 1..Len(s["oneOf"]) : Accepts(s["oneOf"][i], x)}) = 1
  /\ Has(s, "allOf") =>
       \A i \in 1..Len(s["allOf"]) : Accepts(s["allOf"][i], x)

Err(kw, path) == [keyword |-> kw, dataPath |-> path]

KeyOrder == <<"a", "b", "c">>

\* The first key of S in the engine's iteration order.
FirstKey(S) ==
  KeyOrder[CHOOSE i \in 1..Len(KeyOrder) :
             /\ KeyOrder[i] \in S
             /\ \A j \in 1..(i - 1) : KeyOrder[j] \notin S]

MinOf(S) == CHOOSE i \in S : \A j \in S : i <= j

\* The alternatives of a oneOf that the matcher evaluates: all of them, or up
\* to the second one that passes.
OneOfEvaluated(alts, x) ==
  LET pass == {i \in 1..Len(alts) : Accepts(alts[i], x)}
  IN IF Cardinality(pass) >= 2
       THEN 1..MinOf(pass \ {MinOf(pass)})
       ELSE 1..Len(alts)

RECURSIVE Errors(_, _, _)
RECURSIVE OneOfErrors(_, _, _, _)
OneOfErrors(alts, x, p, i) ==
  IF i > Len(alts) \/ i \notin OneOfEvaluated(alts, x)
    THEN <<>>
    ELSE Errors(alts[i], x, p) \o OneOfErrors(alts, x, p, i + 1)

\* matcher.errors after a failed invocation (allErrors is off: the matcher
\* stops at the first keyword that fails).
Errors(s, x, p) ==
  IF Has(s, "type") /\ ~CheckDataType(s["type"], x)
    THEN <<Err("type", p)>>
  ELSE IF Has(s, "minItems") /\ x.t = "arr" /\ Len(x.v) < s["minItems"]
    THEN <<Err("minItems", p)>>
  ELSE IF Has(s, "items") /\ x.t = "arr"
          /\ \E i \in 1..Len(s["items"]) :
                i <= Len(x.v) /\ ~Accepts(s["items"][i], x.v[i])
    THEN LET i == MinOf({j \in 1..Len(s["items"]) :
                           j <= Len(x.v) /\ ~Accepts(s["items"][j], x.v[j])})
         IN Errors(s["items"][i], x.v[i], Append(p, IdxName[i]))
  ELSE IF Has(s, "required") /\ x.t = "obj"
          /\ \E i \in 1..Len(s["required"]) : s["required"][i] \notin DOMAIN x.v
    THEN <<Err("required", p)>>
  ELSE IF Has(s, "additionalProperties") /\ x.t = "obj"
          /\ \E k \in DOMAIN x.v :
                /\ ~Has(s, "properties") \/ k \notin DOMAIN s["properties"]
                /\ ~Accepts(s["additionalProperties"], x.v[k])
    THEN LET k == FirstKey({j \in DOMAIN x.v :
                    /\ ~Has(s, "properties") \/ j \notin DOMAIN s["properties"]
                    /\ ~Accepts(s["additionalProperties"], x.v[j])})
         IN Errors(s["additionalProperties"], x.v[k], Append(p, k))
  ELSE IF Has(s, "properties") /\ x.t = "obj"
          /\ \E k \in DOMAIN s["properties"] :
                k \in DOMAIN x.v /\ ~Accepts(s["properties"][k], x.v[k])
    THEN LET k == FirstKey({j \in DOMAIN s["properties"] :
                    j \in DOMAIN x.v /\ ~Accepts(s["properties"][j], x.v[j])})
         IN Errors(s["properties"][k], x.v[k], Append(p, k))
  ELSE IF Has(s, "enum") /\ ~InEnum(s["enum"], x)
    THEN <<Err("enum", p)>>
  ELSE IF Has(s, "oneOf")
          /\ Cardinality({i \in 1..Len(s["oneOf"]) : Accepts(s["oneOf"][i], x)}) # 1
    THEN OneOfErrors(s["oneOf"], x, p, 1) \o <<Err("oneOf", p)>>
  ELSE IF Has(s, "allOf")
          /\ \E i \in 1..Len(s["allOf"]) : ~Accepts(s["allOf"][i], x)
    THEN LET i == MinOf({j \in 1..Len(s["allOf"]) : ~Accepts(s["allOf"][j], x)})
         IN Errors(s["allOf"][i], x, p)
  ELSE <<>>

(***************************************************************************)
(* Combinators: the schema document each one builds.                       *)
(***************************************************************************)
\* A string that ignores its list of literals.
stringNoEnum(u) == [type |-> "string"]

\* string(union?): u = [given, list]; any array, the empty one too, is truthy.
string(u) ==
  Spread([type |-> "string"], IF u.given THEN [enum |-> u.list] ELSE EmptySchema)

number == [type |-> "number"]

boolean == [type |-> "boolean"]

\* An any that admits objects only.
anyObject == [type |-> "object"]

any == EmptySchema

nil == [type |-> "null"]

\* nominal(v, s): s is the operand's schema, tag the nominal tag.
\* A nominal that writes its tag into the schema.
nominalTagged(s, tag) == Spread(s, [title |-> tag])

nominal(s, tag) == s

\* An object whose required list is in alphabetical order, not in the order
\* the fields were declared.
objectSortedRequired(keys, props, optional) ==
  LET required(k) == k \in SeqRange(keys) /\ k \notin SeqRange(optional)
  IN [type |-> "object",
      properties |-> props,
      required |-> SelectSeq(<<"a", "b", "c">>, required)]

\* object(o, opts): keys is Object.keys(o) in declaration order, props maps
\* each key to its validator's schema, optional is opts.optional (or []).
object(keys, props, optional) ==
  LET required(k) == k \notin SeqRange(optional)
  IN [type |-> "object",
      properties |-> props,
      required |-> SelectSeq(keys, required)]

record(s) == [type |-> "object", additionalProperties |-> s]

\* A partial that accepts every operand.
partialNeverThrows(s) == FALSE

partialThrows(s) == ~Has(s, "type") \/ s["type"] # "object"

partial(s) == Spread(s, [required |-> <<>>])

array(s) == [type |-> "array", items |-> <<s>>, additionalItems |-> TRUE]

union(ss) == [oneOf |-> ss]

intersect(s1, s2) == [allOf |-> <<s1, s2>>]

(***************************************************************************)
(* class Validator.  An instance holds its schema and the two once-cells   *)
(* getAjv and getCompiledSchema; errors is the errors property of its      *)
(* compiled matcher.  compiles counts the calls of ajv.compile, made is     *)
(* the combinator call that constructed the instance and first the schema   *)
(* the instance had when a validation call first returned.                  *)
(***************************************************************************)
NullErrors == [null |-> TRUE, list |-> <<>>]

Made(op, args) == [op |-> op, args |-> args, keys |-> <<>>, optional |-> <<>>]

\* string(union?) was the call: u = [given, list] is its argument.
MadeString(u) ==
  [op |-> "string", args |-> <<>>, keys |-> <<>>, optional |-> <<>>, union |-> u]

\* A validator that creates its engine when it is constructed.
ValidatorEager(schema, made) ==
  [schema |-> schema,
   getAjv |-> [called |-> TRUE, ret |-> 1],
   getCompiledSchema |-> [called |-> FALSE, ret |-> EmptySchema],
   errors |-> NullErrors,
   compiles |-> 0,
   made |-> made,
   first |-> [set |-> FALSE, schema |-> EmptySchema]]

Validator(schema, made) ==
  [schema |-> schema,
   getAjv |-> [called |-> FALSE, ret |-> 0],
   getCompiledSchema |-> [called |-> FALSE, ret |-> EmptySchema],
   errors |-> NullErrors,
   compiles |-> 0,
   made |-> made,
   first |-> [set |-> FALSE, schema |-> EmptySchema]]

\* A once that forgets: f runs on every call and nothing is kept.
onceNoCache(cell, r, fThrows) ==
  [cell |-> cell, ran |-> TRUE, threw |-> fThrows, ret |-> r]

\* once(f), called on a cell: r is what f returns if it runs, fThrows whether
\* it throws instead.  ran tells whether f was run by this call.
once(cell, r, fThrows) ==
  IF ~cell.called
    THEN IF fThrows
           THEN [cell |-> cell, ran |-> TRUE, threw |-> TRUE, ret |-> cell.ret]
           ELSE [cell |-> [called |-> TRUE, ret |-> r],
                 ran |-> TRUE, threw |-> FALSE, ret |-> r]
    ELSE [cell |-> cell, ran |-> FALSE, threw |-> FALSE, ret |-> cell.ret]

getSchema(o) == o.schema

\* An engine shared by the whole process: the first call of any validator
\* creates it and every validator holds that one.
getAjvShared(o, eng) ==
  [o |-> [o EXCEPT !.getAjv = [called |-> TRUE, ret |-> 1]],
   eng |-> IF eng = 0 THEN 1 ELSE eng,
   ret |-> 1]

\* this.getAjv(): new Ajv() is engine number eng + 1.
getAjv(o, eng) ==
  LET c == once(o.getAjv, eng + 1, FALSE)
  IN [o |-> [o EXCEPT !.getAjv = c.cell],
      eng |-> IF c.ran THEN eng + 1 ELSE eng,
      ret |-> c.ret]

\* A getCompiledSchema that compiles the schema without its minItems option.
getCompiledSchemaBare(o, eng) ==
  LET a == getAjv(o, eng)
      schema == [k \in DOMAIN getSchema(o) \ {"minItems"} |-> getSchema(o)[k]]
      c == once(o.getCompiledSchema, schema, ~WellFormed(schema))
  IN IF c.ran
       THEN [o |-> [a.o EXCEPT !.getCompiledSchema = c.cell,
                               !.compiles = @ + 1,
                               !.errors = NullErrors],
             eng |-> a.eng, threw |-> c.threw, ran |-> TRUE, matcher |-> c.ret]
       ELSE [o |-> o, eng |-> eng, threw |-> FALSE, ran |-> FALSE,
             matcher |-> c.ret]

\* this.getCompiledSchema(): ajv.compile throws on a document that is not a
\* schema.
getCompiledSchema(o, eng) ==
  LET a == getAjv(o, eng)
      schema == getSchema(o)
      c == once(o.getCompiledSchema, schema, ~WellFormed(schema))
  IN IF c.ran
       THEN [o |-> [a.o EXCEPT !.getCompiledSchema = c.cell,
                               !.compiles = @ + 1,
                               !.errors = NullErrors],
             eng |-> a.eng, threw |-> c.threw, ran |-> TRUE, matcher |-> c.ret]
       ELSE [o |-> o, eng |-> eng, threw |-> FALSE, ran |-> FALSE,
             matcher |-> c.ret]

isValid(o, eng, x) ==
  LET g == getCompiledSchema(o, eng)
  IN IF g.threw
       THEN [o |-> g.o, eng |-> g.eng, threw |-> TRUE, value |-> FALSE]
       ELSE LET ok == Accepts(g.matcher, x)
            IN [o |-> [g.o EXCEPT !.errors =
                         IF ok THEN NullErrors
                               ELSE [null |-> FALSE,
                                     list |-> Errors(g.matcher, x, <<>>)]],
                eng |-> g.eng, threw |-> FALSE, value |-> ok]

NoReturn == [none |-> TRUE]

\* A validate whose failure result carries no errors.
validateNoErrors(o, eng, x) ==
  LET r == isValid(o, eng, x)
  IN IF r.threw
       THEN [o |-> r.o, eng |-> r.eng, threw |-> TRUE, ret |-> NoReturn]
     ELSE IF r.value
       THEN [o |-> r.o, eng |-> r.eng, threw |-> FALSE,
             ret |-> [data |-> x, valid |-> TRUE]]
     ELSE [o |-> r.o, eng |-> r.eng, threw |-> FALSE,
           ret |-> [errors |-> <<>>, valid |-> FALSE]]

validate(o, eng, x) ==
  LET r == isValid(o, eng, x)
  IN IF r.threw
       THEN [o |-> r.o, eng |-> r.eng, threw |-> TRUE, ret |-> NoReturn]
     ELSE IF r.value
       THEN [o |-> r.o, eng |-> r.eng, threw |-> FALSE,
             ret |-> [data |-> x, valid |-> TRUE]]
     ELSE LET g == getCompiledSchema(r.o, r.eng)
          IN [o |-> g.o, eng |-> g.eng, threw |-> g.threw,
              ret |-> IF g.threw THEN NoReturn
                      ELSE [errors |-> IF g.o.errors.null THEN <<>>
                                       ELSE g.o.errors.list,
                            valid |-> FALSE]]

\* A setSchemaMetaData that replaces the schema by the metadata.
setSchemaMetaDataReplace(o, meta) == [o EXCEPT !.schema = meta]

\* A setSchemaMetaData in which the keys the schema already has win.
setSchemaMetaDataKeepOld(o, meta) == [o EXCEPT !.schema = Spread(meta, o.schema)]

setSchemaMetaData(o, meta) == [o EXCEPT !.schema = Spread(o.schema, meta)]

withOptions(o, opts) == [o EXCEPT !.schema = Spread(o.schema, opts)]

(***************************************************************************)
(* State: the validator instances created so far, the number of engine     *)
(* instances created so far, and the last call with what it returned.      *)
(***************************************************************************)
Call(op, self, x, threw, ret) ==
  [op |-> op, self |-> self, x |-> x, threw |-> threw, ret |-> ret]

Init ==
  /\ heap = <<>>
  /\ engines = 0
  /\ last = Call("none", 0, 0, FALSE, NoReturn)

Validators == 1..Len(heap)

\* A combinator that stores its result in the first instance instead of
\* constructing a new one.
ConstructInPlace(op, schema, made) ==
  /\ Len(heap) >= 1
  /\ heap' = [heap EXCEPT ![1] = Validator(schema, made)]
  /\ last' = Call(op, 0, 0, FALSE, [validator |-> 1])
  /\ UNCHANGED engines

\* A combinator returns new Validator(schema).
Construct(op, schema, made) ==
  /\ heap' = Append(heap, Validator(schema, made))
  /\ last' = Call(op, 0, 0, FALSE, [validator |-> Len(heap) + 1])
  /\ UNCHANGED engines

Throw(op, self) ==
  /\ last' = Call(op, self, 0, TRUE, NoReturn)
  /\ UNCHANGED <<heap, engines>>

String(u, cap) ==
  /\ Len(heap) < cap
  /\ Construct("string", string(u), MadeString(u))

Number(cap) ==
  /\ Len(heap) < cap
  /\ Construct("number", number, Made("number", <<>>))

Boolean(cap) ==
  /\ Len(heap) < cap
  /\ Construct("boolean", boolean, Made("boolean", <<>>))

AnyValidator(cap) ==
  /\ Len(heap) < cap
  /\ Construct("any", any, Made("any", <<>>))

Nil(cap) ==
  /\ Len(heap) < cap
  /\ Construct("nil", nil, Made("nil", <<>>))

Object(keys, of, optional, cap) ==
  /\ Len(heap) < cap
  /\ LET props == [k \in SeqRange(keys) |-> getSchema(heap[of[k]])]
     IN Construct("object", object(keys, props, optional),
                  [op |-> "object",
                   args |-> [i \in 1..Len(keys) |-> getSchema(heap[of[keys[i]]])],
                   keys |-> keys, optional |-> optional])

Partial(i, cap) ==
  /\ Len(heap) < cap
  /\ IF partialThrows(getSchema(heap[i]))
       THEN Throw("partial", i)
       ELSE Construct("partial", partial(getSchema(heap[i])),
                      Made("partial", <<getSchema(heap[i])>>))

Array(i, cap) ==
  /\ Len(heap) < cap
  /\ Construct("array", array(getSchema(heap[i])),
               Made("array", <<getSchema(heap[i])>>))

Union(is, cap) ==
  /\ Len(heap) < cap
  /\ LET ss == [n \in 1..Len(is) |-> getSchema(heap[is[n]])]
     IN Construct("union", union(ss), Made("union", ss))

Or(i, j, cap) ==
  /\ Len(heap) < cap
  /\ LET ss == <<getSchema(heap[i]), getSchema(heap[j])>>
     IN Construct("or", union(ss), Made("or", ss))

\* orNull(): this.or(nil()), and or is union([this, v]).
OrNull(i, cap) ==
  /\ Len(heap) < cap
  /\ LET ss == <<getSchema(heap[i]), nil>>
     IN Construct("orNull", union(ss), Made("orNull", ss))

Intersect(i, j, cap) ==
  /\ Len(heap) < cap
  /\ Construct("intersect", intersect(getSchema(heap[i]), getSchema(heap[j])),
               Made("intersect", <<getSchema(heap[i]), getSchema(heap[j])>>))

\* and(v): intersect(this, v).
And(i, j, cap) ==
  /\ Len(heap) < cap
  /\ Construct("and", intersect(getSchema(heap[i]), getSchema(heap[j])),
               Made("and", <<getSchema(heap[i]), getSchema(heap[j])>>))

Record(i, cap) ==
  /\ Len(heap) < cap
  /\ Construct("record", record(getSchema(heap[i])),
               Made("record", <<getSchema(heap[i])>>))

Nominal(i, tag, cap) ==
  /\ Len(heap) < cap
  /\ Construct("nominal", nominal(getSchema(heap[i]), tag),
               [op |-> "nominal", args |-> <<getSchema(heap[i])>>,
                keys |-> <<>>, optional |-> <<>>, tag |-> tag])

\* A setSchemaMetaData that assigns into the schema object in place, so that
\* every validator built from this one sees the metadata too.
SetSchemaMetaDataInPlace(i, meta) ==
  /\ heap' = [p \in Validators |->
                IF p = i \/ \E n \in 1..Len(heap[p].made.args) :
                                heap[p].made.args[n] = getSchema(heap[i])
                  THEN setSchemaMetaData(heap[p], meta)
                  ELSE heap[p]]
  /\ last' = Call("setSchemaMetaData", i, 0, FALSE, [validator |-> i, arg |-> meta])
  /\ UNCHANGED engines

SetSchemaMetaData(i, meta) ==
  /\ heap' = [heap EXCEPT ![i] = setSchemaMetaData(@, meta)]
  /\ last' = Call("setSchemaMetaData", i, 0, FALSE, [validator |-> i, arg |-> meta])
  /\ UNCHANGED engines

WithOptions(i, opts) ==
  /\ heap' = [heap EXCEPT ![i] = withOptions(@, opts)]
  /\ last' = Call("withOptions", i, 0, FALSE, [validator |-> i, arg |-> opts])
  /\ UNCHANGED engines

GetSchema(i) ==
  /\ last' = Call("getSchema", i, 0, FALSE, [schema |-> getSchema(heap[i])])
  /\ UNCHANGED <<heap, engines>>

(***************************************************************************)
(* Schema objects by identity.  A validator of this part also carries ref, *)
(* the address of the object its schema field points to, and nested, the   *)
(* addresses of the schema objects reachable inside that object.           *)
(***************************************************************************)
Owned(o, ref, nested) == o @@ [ref |-> ref, nested |-> nested]

Nodes(o) == {o.ref} \cup o.nested

Used == UNION {Nodes(heap[i]) : i \in Validators}

\* The address of the object a literal { ... } allocates.
NewNode == CHOOSE n \in 1..(Cardinality(Used) + 1) : n \notin Used

ConstructNode(op, schema, made, ref, nested) ==
  /\ heap' = Append(heap, Owned(Validator(schema, made), ref, nested))
  /\ last' = Call(op, 0, 0, FALSE, [validator |-> Len(heap) + 1])
  /\ UNCHANGED engines

\* new Validator(v.getSchema()): the operand's schema object itself.
NominalNode(i, tag, cap) ==
  /\ Len(heap) < cap
  /\ ConstructNode("nominal", nominal(getSchema(heap[i]), tag),
                   Made("nominal", <<getSchema(heap[i])>>),
                   heap[i].ref, heap[i].nested)

\* coll[key] = o[key].getSchema(): a new object whose property is the
\* operand's schema object.
ObjectNode(i, cap) ==
  /\ Len(heap) < cap
  /\ ConstructNode("object",
                   object(<<"a">>, [a |-> getSchema(heap[i])], <<>>),
                   [op |-> "object", args |-> <<getSchema(heap[i])>>,
                    keys |-> <<"a">>, optional |-> <<>>],
                   NewNode, Nodes(heap[i]))

\* additionalProperties: types.getSchema().
RecordNode(i, cap) ==
  /\ Len(heap) < cap
  /\ ConstructNode("record", record(getSchema(heap[i])),
                   Made("record", <<getSchema(heap[i])>>),
                   NewNode, Nodes(heap[i]))

\* { ...schema, required: [] }: a new object with the operand's members.
PartialNode(i, cap) ==
  /\ Len(heap) < cap
  /\ IF partialThrows(getSchema(heap[i]))
       THEN Throw("partial", i)
       ELSE ConstructNode("partial", partial(getSchema(heap[i])),
                          Made("partial", <<getSchema(heap[i])>>),
                          NewNode, heap[i].nested)

\* this.schema = { ...this.schema, ...meta }: a new object with the old
\* one's members.
SetSchemaMetaDataNode(i, meta) ==
  /\ heap' = [heap EXCEPT ![i] =
                Owned(setSchemaMetaData(@, meta), NewNode, heap[i].nested)]
  /\ last' = Call("setSchemaMetaData", i, 0, FALSE, [validator |-> i, arg |-> meta])
  /\ UNCHANGED engines

\* The schema a validation call that returns is recorded against.
NoteFirst(o, before, threw) ==
  IF threw \/ before.first.set THEN o
  ELSE [o EXCEPT !.first = [set |-> TRUE, schema |-> before.schema]]

IsValid(i, x) ==
  /\ heap[i].compiles < MaxCompiles
  /\ LET r == isValid(heap[i], engines, Inputs[x])
     IN /\ heap' = [heap EXCEPT ![i] = NoteFirst(r.o, heap[i], r.threw)]
        /\ engines' = r.eng
        /\ last' = Call("isValid", i, x, r.threw,
                        IF r.threw THEN NoReturn ELSE [value |-> r.value])

Validate(i, x) ==
  /\ heap[i].compiles < MaxCompiles
  /\ LET r == validate(heap[i], engines, Inputs[x])
     IN /\ heap' = [heap EXCEPT ![i] = NoteFirst(r.o, heap[i], r.threw)]
        /\ engines' = r.eng
        /\ last' = Call("validate", i, x, r.threw, r.ret)

(***************************************************************************)
(* Specifications.  Each one drives a part of the library.                 *)
(***************************************************************************)
NoEnum == [given |-> FALSE, list |-> <<>>]

Lists(S, n) == UNION {[1..m -> S] : m \in 0..n}

Title == [title |-> "T"]

MinItems == [minItems |-> 2]

CacheInputs == {2, 6, 10}

\* The life of validator instances: construction, in-place mutation and
\* validation, of validators whose schema compiles (any) and does not
\* (the union of no alternatives).
Next ==
  \/ AnyValidator(MaxCached)
  \/ Union(<<>>, MaxCached)
  \/ \E i \in Validators : SetSchemaMetaData(i, Title)
  \/ \E i \in Validators : WithOptions(i, MinItems)
  \/ \E i \in Validators, x \in CacheInputs : IsValid(i, x)
  \/ \E i \in Validators, x \in CacheInputs : Validate(i, x)

Spec == Init /\ [][Next]_vars

\* Validators and their engines: construction and validation.
NextEngines ==
  \/ AnyValidator(MaxValidators)
  \/ Union(<<>>, MaxValidators)
  \/ \E i \in Validators, x \in CacheInputs : IsValid(i, x)
  \/ \E i \in Validators, x \in CacheInputs : Validate(i, x)

SpecEngines == Init /\ [][NextEngines]_vars

\* The validators a program has built before the calls a specification
\* explores: each is a combinator's result, not yet validated.
Seeded(vs) ==
  /\ heap = vs
  /\ engines = 0
  /\ last = Call("none", 0, 0, FALSE, NoReturn)

StringV == Validator(string(NoEnum), MadeString(NoEnum))

NumberV == Validator(number, Made("number", <<>>))

EmptyUnionV == Validator(union(<<>>), Made("union", <<>>))

ObjectV(keys, props, optional) ==
  Validator(object(keys, props, optional),
            [op |-> "object", args |-> [i \in 1..Len(keys) |-> props[keys[i]]],
             keys |-> keys, optional |-> optional])

MadeBy(ops) == {i \in Validators : heap[i].made.op \in ops}

UnionInputs == {2, 4, 5}

\* union, or and isValid over a string and a number validator.
InitUnion == Seeded(<<StringV, NumberV>>)

NextUnion ==
  \/ \E is \in Lists(Validators, MaxUnion) : Union(is, 2 + MaxBuilt)
  \/ \E i, j \in Validators : Or(i, j, 2 + MaxBuilt)
  \/ \E i \in MadeBy({"union", "or"}), x \in UnionInputs : IsValid(i, x)

SpecUnion == InitUnion /\ [][NextUnion]_vars

\* array and isValid over a string and a number validator.
InitArray == Seeded(<<StringV, NumberV>>)

NextArray ==
  \/ \E i \in Validators : Array(i, 2 + MaxBuilt)
  \/ \E i \in MadeBy({"array"}), x \in ArrayInputs : IsValid(i, x)

SpecArray == InitArray /\ [][NextArray]_vars

KeyLists == {<<>>, <<"a">>, <<"a", "b">>, <<"b", "a">>}

OptionalLists(keys) ==
  {o \in {<<>>, <<"a">>, <<"b">>, <<"a", "b">>} : SeqRange(o) \subseteq SeqRange(keys)}

\* object and isValid over a string validator, a number validator and the
\* union of no alternatives.
InitObject == Seeded(<<StringV, NumberV, EmptyUnionV>>)

NextObject ==
  \/ \E keys \in KeyLists :
       \E of \in [SeqRange(keys) -> Validators], optional \in OptionalLists(keys) :
          Object(keys, of, optional, 3 + MaxObjects)
  \/ \E i \in MadeBy({"object"}), x \in ObjectInputs : IsValid(i, x)

SpecObject == InitObject /\ [][NextObject]_vars

\* partial, metadata and isValid over object validators, a string validator
\* and the union of no alternatives.
InitPartial ==
  Seeded(<<StringV,
           ObjectV(<<"a", "b">>, [a |-> string(NoEnum), b |-> number], <<"b">>),
           ObjectV(<<"a">>, [a |-> union(<<>>)], <<>>),
           EmptyUnionV>>)

NextPartial ==
  \/ \E i \in Validators : Partial(i, 4 + MaxObjects)
  \/ \E i \in MadeBy({"object"}) : SetSchemaMetaData(i, Title)
  \/ \E i \in MadeBy({"object"}) : WithOptions(i, MinItems)
  \/ \E i \in MadeBy({"partial"}), x \in ObjectInputs : IsValid(i, x)

SpecPartial == InitPartial /\ [][NextPartial]_vars

MisuseInputs == {2, 12}

\* partial over a string validator, the union of no alternatives and an
\* object validator, each of which may have been validated before.
InitMisuse ==
  Seeded(<<StringV, EmptyUnionV, ObjectV(<<"a">>, [a |-> string(NoEnum)], <<>>)>>)

NextMisuse ==
  \/ \E i \in Validators : Partial(i, 3 + MaxObjects)
  \/ \E i \in Validators, x \in MisuseInputs : IsValid(i, x)

SpecMisuse == InitMisuse /\ [][NextMisuse]_vars

CombinatorInputs == {12}

\* Every combinator over a string validator and an object validator; the
\* operands may have been validated before they are combined.
InitCombinators ==
  Seeded(<<StringV, ObjectV(<<"a">>, [a |-> string(NoEnum)], <<>>)>>)

NextCombinators ==
  \/ \E is \in Lists(Validators, MaxUnion) : Union(is, 2 + MaxObjects)
  \/ \E i, j \in Validators : Or(i, j, 2 + MaxObjects)
  \/ \E i \in Validators : OrNull(i, 2 + MaxObjects)
  \/ \E i, j \in Validators : Intersect(i, j, 2 + MaxObjects)
  \/ \E i, j \in Validators : And(i, j, 2 + MaxObjects)
  \/ \E i \in Validators : Object(<<"a">>, [k \in {"a"} |-> i], <<>>, 2 + MaxObjects)
  \/ \E i \in Validators : Record(i, 2 + MaxObjects)
  \/ \E i \in Validators : Array(i, 2 + MaxObjects)
  \/ \E i \in Validators : Partial(i, 2 + MaxObjects)
  \/ \E i \in Validators : Nominal(i, "id", 2 + MaxObjects)
  \/ \E i \in MadeBy({"string", "object"}), x \in CombinatorInputs : IsValid(i, x)

SpecCombinators == InitCombinators /\ [][NextCombinators]_vars

AnyV == Validator(any, Made("any", <<>>))

IsolationInputs == {6, 10}

\* A validator on which isValid(x) has returned.
ValidatedV(o, x) == NoteFirst(isValid(o, 0, Inputs[x]).o, o, FALSE)

\* Validators built from an any validator that has been validated, with
\* setSchemaMetaData and withOptions on the operand and on what was built
\* from it.
InitIsolation ==
  /\ heap = <<ValidatedV(AnyV, 6)>>
  /\ engines = 1
  /\ last = Call("isValid", 1, 6, FALSE, [value |-> TRUE])

NextIsolation ==
  \/ \E i \in Validators : Array(i, 1 + MaxObjects)
  \/ \E i \in Validators : Nominal(i, "id", 1 + MaxObjects)
  \/ \E i \in Validators : Object(<<"a">>, [k \in {"a"} |-> i], <<>>, 1 + MaxObjects)
  \/ \E i, j \in Validators : Or(i, j, 1 + MaxObjects)
  \/ \E i \in Validators : SetSchemaMetaData(i, Title)
  \/ \E i \in Validators : WithOptions(i, MinItems)

SpecIsolation == InitIsolation /\ [][NextIsolation]_vars

MetaArgs == {[title |-> "T"], [title |-> "U", description |-> "D"]}

OptionArgs == {[minItems |-> 2], [minItems |-> 0]}

OverlayInputs == {6, 10}

\* setSchemaMetaData and withOptions with arguments that overlap, on an any
\* validator, before and after isValid.
InitOverlay == Seeded(<<AnyV>>)

NextOverlay ==
  \/ \E i \in Validators, meta \in MetaArgs : SetSchemaMetaData(i, meta)
  \/ \E i \in Validators, opts \in OptionArgs : WithOptions(i, opts)
  \/ \E i \in Validators, x \in OverlayInputs : IsValid(i, x)

SpecOverlay == InitOverlay /\ [][NextOverlay]_vars

ArrayAnyV == Validator(array(any), Made("array", <<any>>))

OptionInputs == {2, 6, 7, 10}

\* withOptions and isValid on array(any()) and on the union of no
\* alternatives.
InitOptions == Seeded(<<ArrayAnyV, EmptyUnionV>>)

NextOptions ==
  \/ \E i \in Validators, opts \in OptionArgs : WithOptions(i, opts)
  \/ \E i \in Validators, x \in OptionInputs : IsValid(i, x)

SpecOptions == InitOptions /\ [][NextOptions]_vars

MetaSeeds == <<StringV, EmptyUnionV>>

MetaInputs == {2, 6}

\* setSchemaMetaData, isValid and validate on a string validator and on the
\* union of no alternatives.
InitMeta == Seeded(MetaSeeds)

NextMeta ==
  \/ \E i \in Validators, meta \in MetaArgs : SetSchemaMetaData(i, meta)
  \/ \E i \in Validators, x \in MetaInputs : IsValid(i, x)
  \/ \E i \in Validators, x \in MetaInputs : Validate(i, x)

SpecMeta == InitMeta /\ [][NextMeta]_vars

OrNullInputs == {1, 2, 4}

\* orNull and isValid over a string validator and an any validator.
InitOrNull == Seeded(<<StringV, AnyV>>)

NextOrNull ==
  \/ \E i \in Validators : OrNull(i, 2 + MaxBuilt)
  \/ \E i \in MadeBy({"orNull"}), x \in OrNullInputs : IsValid(i, x)

SpecOrNull == InitOrNull /\ [][NextOrNull]_vars

IntersectInputs == {2, 12, 13, 15}

\* intersect, and and isValid over two object validators with disjoint
\* fields and the union of no alternatives.
InitIntersect ==
  Seeded(<<ObjectV(<<"a">>, [a |-> string(NoEnum)], <<>>),
           ObjectV(<<"b">>, [b |-> number], <<>>),
           EmptyUnionV>>)

NextIntersect ==
  \/ \E i, j \in Validators : Intersect(i, j, 3 + MaxBuilt)
  \/ \E i, j \in Validators : And(i, j, 3 + MaxBuilt)
  \/ \E i \in MadeBy({"intersect", "and"}), x \in IntersectInputs : IsValid(i, x)

SpecIntersect == InitIntersect /\ [][NextIntersect]_vars

StringOrNumberV ==
  Validator(union(<<string(NoEnum), number>>),
            Made("union", <<string(NoEnum), number>>))

RecordInputs == {2, 11, 12, 15, 16}

\* record and isValid over a string validator, the union of string and
\* number, and the union of no alternatives.
InitRecord == Seeded(<<StringV, StringOrNumberV, EmptyUnionV>>)

NextRecord ==
  \/ \E i \in Validators : Record(i, 3 + MaxBuilt)
  \/ \E i \in MadeBy({"record"}), x \in RecordInputs : IsValid(i, x)

SpecRecord == InitRecord /\ [][NextRecord]_vars

Enum(list) == [given |-> TRUE, list |-> list]

StringArgs == {NoEnum, Enum(<<"a", "b", "c">>), Enum(<<>>)}

PrimitiveInputs == {1, 2, 3, 4, 5, 6, 7, 11, 12}

\* The primitive combinators, isValid and validate.
NextPrimitives ==
  \/ \E u \in StringArgs : String(u, MaxCached)
  \/ Number(MaxCached)
  \/ Boolean(MaxCached)
  \/ Nil(MaxCached)
  \/ \E i \in Validators, x \in PrimitiveInputs : IsValid(i, x)
  \/ \E i \in Validators, x \in PrimitiveInputs : Validate(i, x)

SpecPrimitives == Init /\ [][NextPrimitives]_vars

AnyInputs == {1, 2, 11, 12, 17, 18}

\* any, object over it with the field required or optional, isValid and
\* validate.
NextAny ==
  \/ AnyValidator(MaxValidators)
  \/ \E i \in Validators, optional \in {<<>>, <<"a">>} :
        Object(<<"a">>, [k \in {"a"} |-> i], optional, MaxValidators)
  \/ \E i \in Validators, x \in AnyInputs : IsValid(i, x)
  \/ \E i \in Validators, x \in AnyInputs : Validate(i, x)

SpecAny == Init /\ [][NextAny]_vars

Tags == {"id", "TestType"}

\* nominal and isValid over array(any()), which may be given options before
\* or after nominal reads it, and the union of no alternatives.
InitNominal == Seeded(<<ArrayAnyV, EmptyUnionV>>)

NextNominal ==
  \/ \E i \in Validators, tag \in Tags : Nominal(i, tag, 2 + MaxObjects)
  \/ \E i \in MadeBy({"array"}) : WithOptions(i, MinItems)
  \/ \E i \in MadeBy({"nominal", "array"}), x \in {2, 6, 10} : IsValid(i, x)

SpecNominal == InitNominal /\ [][NextNominal]_vars

ThingV == ObjectV(<<"a">>, [a |-> string(NoEnum)], <<>>)

PairV == ObjectV(<<"a", "b">>, [a |-> string(NoEnum), b |-> number], <<>>)

ErrorInputs == {11, 12, 13, 15, 19, 20}

\* validate and isValid on object({a: string()}) and
\* object({a: string(), b: number()}).
InitErrors == Seeded(<<ThingV, PairV>>)

NextErrors ==
  \/ \E i \in Validators, x \in ErrorInputs : Validate(i, x)
  \/ \E i \in Validators, x \in ErrorInputs : IsValid(i, x)

SpecErrors == InitErrors /\ [][NextErrors]_vars

BothRequiredV ==
  ObjectV(<<"b", "a">>, [a |-> string(NoEnum), b |-> number], <<>>)

BuiltHere == {i \in Validators : i > 3}

\* object over a string and a number validator, next to an object validator
\* that exists already, with setSchemaMetaData on the string validator and on
\* what is built, and getSchema and isValid on what is built.
InitSchema == Seeded(<<StringV, NumberV, BothRequiredV>>)

NextSchema ==
  \/ \E keys \in {<<"a", "b">>, <<"b", "a">>}, optional \in {<<>>, <<"a">>} :
        Object(keys, [a |-> 1, b |-> 2], optional, 3 + MaxObjects)
  \/ \E i \in {1} \cup BuiltHere : SetSchemaMetaData(i, Title)
  \/ \E i \in BuiltHere : GetSchema(i)
  \/ \E i \in BuiltHere : IsValid(i, 12)

SpecSchema == InitSchema /\ [][NextSchema]_vars

\* Combinators, getSchema, the two mutators and the two validation calls over
\* a string validator and what is built from it.
InitLazy == Seeded(<<StringV>>)

NextLazy ==
  \/ \E i \in Validators : Array(i, 1 + MaxObjects)
  \/ \E i \in Validators : Partial(i, 1 + MaxObjects)
  \/ \E i \in Validators : Object(<<"a">>, [k \in {"a"} |-> i], <<>>, 1 + MaxObjects)
  \/ \E i \in Validators : Or(1, i, 1 + MaxObjects)
  \/ \E i \in Validators : GetSchema(i)
  \/ \E i \in Validators \ {1} : SetSchemaMetaData(i, Title)
  \/ WithOptions(1, MinItems)
  \/ IsValid(1, 12)
  \/ \E i \in Validators \ {1} : Validate(i, 12)

SpecLazy == InitLazy /\ [][NextLazy]_vars

\* nominal, object, record, partial and setSchemaMetaData over a string
\* validator, whose schema object is at address 1.
InitIdentity == Seeded(<<Owned(StringV, 1, {})>>)

NextIdentity ==
  \/ \E i \in Validators : NominalNode(i, "id", 1 + MaxBuilt)
  \/ \E i \in Validators : ObjectNode(i, 1 + MaxBuilt)
  \/ \E i \in Validators : RecordNode(i, 1 + MaxBuilt)
  \/ \E i \in Validators : PartialNode(i, 1 + MaxBuilt)
  \/ \E i \in Validators : SetSchemaMetaDataNode(i, Title)

SpecIdentity == InitIdentity /\ [][NextIdentity]_vars

\* array(any()) has been validated; withOptions on it, the combinators over
\* it and a string validator, and isValid on it and on what is built.
InitRead ==
  /\ heap = <<ValidatedV(ArrayAnyV, 6), StringV>>
  /\ engines = 1
  /\ last = Call("isValid", 1, 6, FALSE, [value |-> TRUE])

NextRead ==
  \/ WithOptions(1, MinItems)
  \/ Nominal(1, "id", 2 + MaxObjects)
  \/ Array(1, 2 + MaxObjects)
  \/ Object(<<"a">>, [k \in {"a"} |-> 1], <<>>, 2 + MaxObjects)
  \/ Record(1, 2 + MaxObjects)
  \/ Or(1, 2, 2 + MaxObjects)
  \/ And(1, 2, 2 + MaxObjects)
  \/ \E i \in Validators \ {2}, x \in {6, 10, 21, 22, 23} : IsValid(i, x)

SpecRead == InitRead /\ [][NextRead]_vars

(***************************************************************************)
(* Claims.                                                                 *)
(***************************************************************************)
LastIsValid == last.op = "isValid"

LastSelf == heap[last.self]

LastInput == Inputs[last.x]

Matching(ss, x) == {n \in 1..Len(ss) : Accepts(ss[n], x)}

\* C1: union(vs).isValid(x), and a.or(b).isValid(x), returns true iff exactly
\* one alternative's schema accepts x, and returns false otherwise.
UnionExactlyOne ==
  (LastIsValid /\ LastSelf.made.op \in {"union", "or"}) =>
     /\ ~last.threw
     /\ last.ret.value = (Cardinality(Matching(LastSelf.made.args, LastInput)) = 1)

\* C2: a.or(b).isValid(x) returns true whenever a's schema or b's schema
\* accepts x.
OrMatchesEither ==
  (LastIsValid /\ LastSelf.made.op = "or"
     /\ Matching(LastSelf.made.args, LastInput) # {}) =>
     /\ ~last.threw
     /\ last.ret.value

SameSchema(a, b) == DOMAIN a = DOMAIN b /\ \A k \in DOMAIN a : a[k] = b[k]

\* What a fresh engine answers for schema s on x: it throws or gives a verdict.
Fresh(s, x) ==
  IF WellFormed(s) THEN [threw |-> FALSE, value |-> Accepts(s, x)]
                   ELSE [threw |-> TRUE, value |-> FALSE]

\* C3: v.isValid(x) is the verdict a fresh engine gives for v.getSchema() on x.
GetSchemaIsEnforced ==
  LastIsValid =>
     LET f == Fresh(getSchema(LastSelf), LastInput)
     IN /\ last.threw = f.threw
        /\ ~last.threw => last.ret.value = f.value

LastValidation == last.op \in {"isValid", "validate"} /\ ~last.threw

LastVerdict == IF last.op = "isValid" THEN last.ret.value ELSE last.ret.valid

\* C4: once the first validation call has populated the matcher, a later
\* setSchemaMetaData or withOptions changes getSchema() only: the matcher
\* stays the one compiled then, and every verdict is that of the schema the
\* validator had at its first validation.
StaleMatcher ==
  /\ LastValidation =>
       /\ LastSelf.first.set
       /\ LastVerdict = Accepts(LastSelf.first.schema, LastInput)
  /\ \A i \in Validators :
       heap[i].first.set =>
          /\ heap[i].getCompiledSchema.called
          /\ SameSchema(heap[i].getCompiledSchema.ret, heap[i].first.schema)
          /\ DOMAIN heap[i].first.schema \subseteq DOMAIN getSchema(heap[i])
  /\ (last.op = "withOptions" => Has(getSchema(LastSelf), "minItems"))
  /\ (last.op = "setSchemaMetaData" => Has(getSchema(LastSelf), "title"))

\* A validator whose schema was given minItems after its first validation has
\* just accepted an array that its current schema rejects.
StaleMatcherWitness ==
  /\ LastValidation
  /\ LastSelf.first.set
  /\ ~SameSchema(LastSelf.first.schema, getSchema(LastSelf))
  /\ Has(getSchema(LastSelf), "minItems")
  /\ ~Has(LastSelf.first.schema, "minItems")
  /\ LastVerdict
  /\ ~Accepts(getSchema(LastSelf), LastInput)

\* C5: over any sequence of isValid and validate calls the engine's compile
\* is invoked at most once for each validator instance.
CompileAtMostOnce == \A i \in Validators : heap[i].compiles <= 1

\* The same for the validators whose schema compiles.
CompileAtMostOnceCompilable ==
  \A i \in Validators : WellFormed(getSchema(heap[i])) => heap[i].compiles <= 1

Validated == {i \in Validators : heap[i].compiles > 0}

ValidateShape ==
  last.op = "validate" =>
     /\ ~last.threw
     /\ IF Accepts(LastSelf.getCompiledSchema.ret, LastInput)
          THEN /\ DOMAIN last.ret = {"data", "valid"}
               /\ last.ret.valid
               /\ last.ret.data = LastInput
          ELSE /\ DOMAIN last.ret = {"errors", "valid"}
               /\ ~last.ret.valid
               /\ last.ret.errors =
                     Errors(LastSelf.getCompiledSchema.ret, LastInput, <<>>)

\* The same for the calls that return.
ValidateShapeCompilable ==
  (last.op = "validate" /\ ~last.threw) =>
     IF Accepts(LastSelf.getCompiledSchema.ret, LastInput)
       THEN /\ DOMAIN last.ret = {"data", "valid"}
            /\ last.ret.valid
            /\ last.ret.data = LastInput
       ELSE /\ DOMAIN last.ret = {"errors", "valid"}
            /\ ~last.ret.valid
            /\ last.ret.errors =
                  Errors(LastSelf.getCompiledSchema.ret, LastInput, <<>>)

\* The same claim as C1 for the unions whose schema compiles.
UnionExactlyOneCompilable ==
  (LastIsValid /\ LastSelf.made.op \in {"union", "or"}
     /\ WellFormed(getSchema(LastSelf))) =>
     /\ ~last.threw
     /\ last.ret.value = (Cardinality(Matching(LastSelf.made.args, LastInput)) = 1)

IsArray(x) == x.t = "arr"

IsObject(x) == x.t = "obj"

\* C8: array(v).isValid(x) returns true iff x is an array and every element
\* of x, at every position, is accepted by v's schema.
ArrayEveryElement ==
  (LastIsValid /\ LastSelf.made.op = "array") =>
     /\ ~last.threw
     /\ last.ret.value =
          (/\ IsArray(LastInput)
           /\ \A n \in 1..Len(LastInput.v) :
                 Accepts(LastSelf.made.args[1], LastInput.v[n]))

\* What C8 says of the first element alone.
ArrayFirstElement ==
  (LastIsValid /\ LastSelf.made.op = "array") =>
     /\ ~last.threw
     /\ last.ret.value =
          (/\ IsArray(LastInput)
           /\ Len(LastInput.v) >= 1 =>
                 Accepts(LastSelf.made.args[1], LastInput.v[1]))

\* The verdict C9 states for an object validator built from keys, the
\* schemas of its fields and its optional list.
ObjectVerdict(made, x) ==
  /\ IsObject(x)
  /\ \A n \in 1..Len(made.keys) :
        /\ made.keys[n] \notin SeqRange(made.optional) => made.keys[n] \in DOMAIN x.v
        /\ made.keys[n] \in DOMAIN x.v => Accepts(made.args[n], x.v[made.keys[n]])

\* C9: object(fields, {optional}).isValid(x) returns true iff x is an object,
\* every field not in optional is present, and every listed field that is
\* present is accepted by its validator's schema.
ObjectFields ==
  (LastIsValid /\ LastSelf.made.op = "object") =>
     /\ ~last.threw
     /\ last.ret.value = ObjectVerdict(LastSelf.made, LastInput)

\* The same for the object validators whose schema compiles.
ObjectFieldsCompilable ==
  (LastIsValid /\ LastSelf.made.op = "object" /\ WellFormed(getSchema(LastSelf))) =>
     /\ ~last.threw
     /\ last.ret.value = ObjectVerdict(LastSelf.made, LastInput)

\* partial's result differs from its operand's schema in required alone.
PartialSchema(p, s) ==
  /\ DOMAIN p = DOMAIN s \cup {"required"}
  /\ p.required = <<>>
  /\ \A k \in DOMAIN s \ {"required"} : p[k] = s[k]

\* The verdict C10 states for the partial of an object schema s.
PartialVerdict(s, x) ==
  /\ IsObject(x)
  /\ \A k \in DOMAIN s.properties \cap DOMAIN x.v : Accepts(s.properties[k], x.v[k])

\* C10: partial(v) is a new validator whose schema is v's current schema with
\* required empty, and partial(v).isValid(x) returns true iff x is an object
\* whose present listed keys are accepted by their field schemas.
PartialOfObject ==
  /\ \A i \in MadeBy({"partial"}) :
        PartialSchema(getSchema(heap[i]), heap[i].made.args[1])
  /\ (LastIsValid /\ LastSelf.made.op = "partial") =>
        /\ ~last.threw
        /\ last.ret.value = PartialVerdict(LastSelf.made.args[1], LastInput)

\* The same for the partial validators whose schema compiles.
PartialOfObjectCompilable ==
  /\ \A i \in MadeBy({"partial"}) :
        PartialSchema(getSchema(heap[i]), heap[i].made.args[1])
  /\ (LastIsValid /\ LastSelf.made.op = "partial" /\ WellFormed(getSchema(LastSelf))) =>
        /\ ~last.threw
        /\ last.ret.value = PartialVerdict(LastSelf.made.args[1], LastInput)

ObjectTyped(s) == Has(s, "type") /\ s["type"] = "object"

\* C11: partial(v) on a validator whose current schema is not object-typed
\* throws at the call: no validator is returned, nothing is returned as a
\* result, and v and every other validator keep their schema and cache; a
\* partial that returns was given an object-typed schema.
PartialConfigError ==
  [][last'.op = "partial" =>
       IF last'.threw
         THEN /\ ~ObjectTyped(getSchema(heap[last'.self]))
              /\ last'.ret = NoReturn
              /\ heap' = heap
              /\ engines' = engines
         ELSE /\ Len(heap') = Len(heap) + 1
              /\ ObjectTyped(heap'[Len(heap')].made.args[1])]_vars

\* partial has just thrown on a string validator whose matcher is populated.
PartialConfigErrorWitness ==
  /\ last.op = "partial"
  /\ last.threw
  /\ LastSelf.getCompiledSchema.called
  /\ ~ObjectTyped(getSchema(LastSelf))

\* C12: every validator built by the combinators owns a schema the engine
\* compiles, so isValid and validate never throw.
SchemasWellFormed ==
  /\ \A i \in Validators : WellFormed(getSchema(heap[i]))
  /\ last.op \in {"isValid", "validate"} => ~last.threw

CombinatorOps ==
  {"or", "and", "orNull", "union", "intersect", "object", "record", "array",
   "partial", "nominal"}

\* C13: a combinator other than setSchemaMetaData and withOptions returns a
\* new validator instance, whose cells are empty, and leaves every validator
\* that existed before the call, its operands included, as it was: schema,
\* engine cell, matcher cell and matcher errors.
OperandsUnchanged ==
  [][(last'.op \in CombinatorOps /\ ~last'.threw) =>
       /\ Len(heap') = Len(heap) + 1
       /\ last'.ret.validator = Len(heap')
       /\ ~heap'[Len(heap')].getAjv.called
       /\ ~heap'[Len(heap')].getCompiledSchema.called
       /\ \A i \in 1..Len(heap) : heap'[i] = heap[i]]_vars

\* and has just combined a validated string validator, whose matcher cell
\* is still populated, with an object validator that was never validated.
OperandsUnchangedWitness ==
  /\ last.op = "and"
  /\ Len(heap) = 3
  /\ heap[1].getCompiledSchema.called
  /\ ~heap[2].getCompiledSchema.called
  /\ SameSchema(heap[3].made.args[1], getSchema(heap[1]))
  /\ SameSchema(heap[3].made.args[2], getSchema(heap[2]))

MutatorOps == {"setSchemaMetaData", "withOptions"}

\* C14: a setSchemaMetaData or withOptions call on one validator leaves every
\* other validator as it was, whether built from it or used to build it:
\* schema, engine cell, matcher cell and the outcome of isValid on every input.
Isolation ==
  [][last'.op \in MutatorOps =>
       /\ Len(heap') = Len(heap)
       /\ \A p \in Validators \ {last'.self} :
             /\ heap'[p] = heap[p]
             /\ \A x \in IsolationInputs :
                   LET before == isValid(heap[p], engines, Inputs[x])
                       after == isValid(heap'[p], engines', Inputs[x])
                   IN /\ after.threw = before.threw
                      /\ after.value = before.value]_vars

\* withOptions has just given minItems to the validated operand of an array
\* validator, and the array validator's item schema is still the operand's
\* schema as it was when the array was built.
IsolationWitness ==
  /\ last.op = "withOptions"
  /\ last.self = 1
  /\ Has(getSchema(heap[1]), "minItems")
  /\ heap[1].getCompiledSchema.called
  /\ \E p \in MadeBy({"array"}) :
        /\ ~Has(heap[p].made.args[1], "minItems")
        /\ SameSchema(getSchema(heap[p]), array(heap[p].made.args[1]))

\* The shallow overlay of arg on old: arg's keys take arg's values, the other
\* keys of old keep theirs, and there are no further keys.
Overlay(new, old, arg) ==
  /\ DOMAIN new = DOMAIN old \cup DOMAIN arg
  /\ \A k \in DOMAIN arg : new[k] = arg[k]
  /\ \A k \in DOMAIN old \ DOMAIN arg : new[k] = old[k]

\* C15: setSchemaMetaData(m) and withOptions(o) return the instance they were
\* called on and replace its schema by the shallow overlay of the argument
\* on the current schema; a second call with argument b leaves the schema
\* that one call with the two arguments merged, b's keys winning, would.
MutatorsOverlay ==
  [][last'.op \in MutatorOps =>
       LET self == last'.self
           arg == last'.ret.arg
           old == getSchema(heap[self])
           new == getSchema(heap'[self])
       IN /\ last'.ret.validator = self
          /\ ~last'.threw
          /\ Len(heap') = Len(heap)
          /\ Overlay(new, old, arg)
          /\ heap'[self] = [heap[self] EXCEPT !.schema = new]
          /\ \A b \in MetaArgs :
                Overlay(getSchema(setSchemaMetaData(heap'[self], b)), old, Spread(arg, b))
          /\ \A b \in OptionArgs :
                Overlay(getSchema(withOptions(heap'[self], b)), old, Spread(arg, b))]_vars

\* setSchemaMetaData has just replaced the title a validator already had and
\* kept the minItems it had been given.
MutatorsOverlayWitness ==
  /\ last.op = "setSchemaMetaData"
  /\ last.ret.arg.title = "U"
  /\ getSchema(LastSelf).title = "U"
  /\ Has(getSchema(LastSelf), "minItems")
  /\ LastSelf.first.set
  /\ Has(LastSelf.first.schema, "title")
  /\ LastSelf.first.schema.title = "T"

\* No option was merged after the validator's first validation call returned.
MergedBeforeFirst(o) == o.first.set => SameSchema(o.first.schema, getSchema(o))

\* C16: when every withOptions call on a validator came before its first
\* validation call, isValid(x) has the outcome a fresh engine has for the
\* validator's schema overlaid with the options; array(any()) given
\* minItems 2 accepts exactly the arrays of two or more items.
OptionsEnforced ==
  (LastIsValid /\ MergedBeforeFirst(LastSelf)) =>
     LET f == Fresh(getSchema(LastSelf), LastInput)
     IN /\ last.threw = f.threw
        /\ ~last.threw => last.ret.value = f.value
        /\ (/\ LastSelf.made.op = "array"
            /\ Has(getSchema(LastSelf), "minItems")
            /\ getSchema(LastSelf).minItems = 2) =>
              /\ ~last.threw
              /\ last.ret.value = (IsArray(LastInput) /\ Len(LastInput.v) >= 2)

\* array(any()) was given minItems 2 before its first validation and has
\* just rejected an array of one item.
OptionsEnforcedWitness ==
  /\ LastIsValid
  /\ LastSelf.made.op = "array"
  /\ LastSelf.first.set
  /\ Has(LastSelf.first.schema, "minItems")
  /\ LastSelf.first.schema.minItems = 2
  /\ MergedBeforeFirst(LastSelf)
  /\ IsArray(LastInput)
  /\ Len(LastInput.v) = 1
  /\ ~last.ret.value

\* C17: whatever metadata setSchemaMetaData has merged into a validator,
\* before or after its first validation, isValid(x) and the valid flag of
\* validate(x) are what a fresh engine gives for the schema the validator
\* was constructed with, which carries no metadata.
MetadataUnobservable ==
  last.op \in {"isValid", "validate"} =>
     LET f == Fresh(getSchema(MetaSeeds[last.self]), LastInput)
     IN /\ last.threw = f.threw
        /\ ~last.threw => LastVerdict = f.value

\* A validator that was given a title before its first validation and a
\* description after it has just returned a verdict.
MetadataUnobservableWitness ==
  /\ LastValidation
  /\ LastSelf.first.set
  /\ Has(LastSelf.first.schema, "title")
  /\ ~Has(LastSelf.first.schema, "description")
  /\ Has(getSchema(LastSelf), "description")
  /\ LastVerdict

IsNull(x) == x.t = "null"

\* C18: v.orNull() has the schema of v.or(nil()), accepts null, and accepts
\* every non-null input that v's schema accepts.
OrNullNullable ==
  /\ \A i \in MadeBy({"orNull"}) :
        SameSchema(getSchema(heap[i]), union(<<heap[i].made.args[1], nil>>))
  /\ (LastIsValid /\ LastSelf.made.op = "orNull") =>
        /\ ~last.threw
        /\ IsNull(LastInput) => last.ret.value
        /\ (~IsNull(LastInput) /\ Accepts(LastSelf.made.args[1], LastInput)) =>
              last.ret.value

\* What holds of orNull: the schema, the non-null inputs, and null when v's
\* schema does not itself accept null.
OrNullOfNonNullable ==
  /\ \A i \in MadeBy({"orNull"}) :
        SameSchema(getSchema(heap[i]), union(<<heap[i].made.args[1], nil>>))
  /\ (LastIsValid /\ LastSelf.made.op = "orNull") =>
        /\ ~last.threw
        /\ IsNull(LastInput) =>
              (last.ret.value = ~Accepts(LastSelf.made.args[1], LastInput))
        /\ (~IsNull(LastInput) /\ Accepts(LastSelf.made.args[1], LastInput)) =>
              last.ret.value

\* C19: intersect(v1, v2).isValid(x) and v1.and(v2).isValid(x) return true
\* iff v1's schema and v2's schema both accept x.
IntersectBoth ==
  (LastIsValid /\ LastSelf.made.op \in {"intersect", "and"}) =>
     /\ ~last.threw
     /\ last.ret.value = (/\ Accepts(LastSelf.made.args[1], LastInput)
                          /\ Accepts(LastSelf.made.args[2], LastInput))

\* The same for the intersections whose schema compiles.
IntersectBothCompilable ==
  (LastIsValid /\ LastSelf.made.op \in {"intersect", "and"}
     /\ WellFormed(getSchema(LastSelf))) =>
     /\ ~last.threw
     /\ last.ret.value = (/\ Accepts(LastSelf.made.args[1], LastInput)
                          /\ Accepts(LastSelf.made.args[2], LastInput))

\* The verdict C20 states for the record of value schema s.
RecordVerdict(s, x) ==
  /\ IsObject(x)
  /\ \A k \in DOMAIN x.v : Accepts(s, x.v[k])

\* C20: record(v).isValid(x) returns true iff x is an object and the value
\* under every key of x is accepted by v's schema.
RecordEveryValue ==
  (LastIsValid /\ LastSelf.made.op = "record") =>
     /\ ~last.threw
     /\ last.ret.value = RecordVerdict(LastSelf.made.args[1], LastInput)

\* The same for the records whose schema compiles.
RecordEveryValueCompilable ==
  (LastIsValid /\ LastSelf.made.op = "record" /\ WellFormed(getSchema(LastSelf))) =>
     /\ ~last.threw
     /\ last.ret.value = RecordVerdict(LastSelf.made.args[1], LastInput)

\* The runtime kind each primitive combinator names.
KindOf(op) ==
  CASE op = "string" -> "str"
    [] op = "number" -> "num"
    [] op = "boolean" -> "bool"
    [] op = "nil" -> "null"

PrimitiveOps == {"string", "number", "boolean", "nil"}

\* C21: for string, number, boolean and nil, isValid(x) returns true iff x is
\* of the matching runtime kind and, for string(E) with a list E, x is a
\* member of E.
PrimitiveKinds ==
  (last.op \in {"isValid", "validate"} /\ LastSelf.made.op \in PrimitiveOps) =>
     /\ ~last.threw
     /\ LastVerdict =
          (/\ LastInput.t = KindOf(LastSelf.made.op)
           /\ (LastSelf.made.op = "string" /\ LastSelf.made.union.given) =>
                 \E n \in 1..Len(LastSelf.made.union.list) :
                    LastSelf.made.union.list[n] = LastInput.v)

\* string(['a', 'b', 'c']) has just rejected the string 'd'.
PrimitiveKindsWitness ==
  /\ LastIsValid
  /\ LastSelf.made.op = "string"
  /\ LastSelf.made.union.given
  /\ Len(LastSelf.made.union.list) = 3
  /\ LastInput.t = "str"
  /\ LastInput.v = "d"
  /\ ~last.ret.value

\* C22: any().isValid(x) returns true for every input x, undefined and
\* functions included, and object({a: any()}) accepts exactly the objects
\* that carry the key a.
AnyAcceptsAll ==
  /\ (last.op \in {"isValid", "validate"} /\ LastSelf.made.op = "any") =>
        /\ ~last.threw
        /\ LastVerdict
  /\ (last.op \in {"isValid", "validate"}
        /\ LastSelf.made.op = "object"
        /\ LastSelf.made.optional = <<>>
        /\ SameSchema(LastSelf.made.args[1], EmptySchema)) =>
        /\ ~last.threw
        /\ LastVerdict = (IsObject(LastInput) /\ "a" \in DOMAIN LastInput.v)

\* any() has accepted undefined and object({a: any()}) exists.
AnyAcceptsAllWitness ==
  /\ LastIsValid
  /\ LastSelf.made.op = "any"
  /\ LastInput.t = "undefined"
  /\ last.ret.value
  /\ \E i \in MadeBy({"object"}) : heap[i].made.optional = <<>>

\* C23: nominal(v, s) has the schema v had at the call, whatever the tag, so
\* the tag is nowhere in it, and its isValid has the outcome a fresh engine
\* has for that schema.
NominalIdentity ==
  /\ \A i \in MadeBy({"nominal"}) :
        SameSchema(getSchema(heap[i]), heap[i].made.args[1])
  /\ \A i \in Validators, tag \in Tags :
        SameSchema(nominal(getSchema(heap[i]), tag), getSchema(heap[i]))
  /\ (LastIsValid /\ LastSelf.made.op = "nominal") =>
        LET f == Fresh(LastSelf.made.args[1], LastInput)
        IN /\ last.threw = f.threw
           /\ ~last.threw => last.ret.value = f.value

\* A nominal built from array(any()) after it was given minItems 2 has just
\* rejected the empty array.
NominalIdentityWitness ==
  /\ LastIsValid
  /\ LastSelf.made.op = "nominal"
  /\ LastSelf.made.tag = "TestType"
  /\ Has(LastSelf.made.args[1], "minItems")
  /\ IsArray(LastInput)
  /\ ~last.threw
  /\ ~last.ret.value

PrimitiveSchema(s) ==
  /\ DOMAIN s = {"type"}
  /\ s["type"] \in {"string", "number", "boolean"}

WrongKindFields(made, x) ==
  {n \in 1..Len(made.keys) :
     /\ made.keys[n] \in DOMAIN x.v
     /\ ~CheckDataType(made.args[n]["type"], x.v[made.keys[n]])}

OneWrongKind(made, x) ==
  /\ IsObject(x)
  /\ \A n \in 1..Len(made.keys) :
        /\ PrimitiveSchema(made.args[n])
        /\ made.keys[n] \notin SeqRange(made.optional) => made.keys[n] \in DOMAIN x.v
  /\ Cardinality(WrongKindFields(made, x)) = 1

\* C24: validate on an object validator of primitive fields, on an object
\* whose only violation is one field of the wrong kind, returns valid: false
\* with exactly one error, the type error of that field.
OneErrorPerWrongKind ==
  (/\ last.op = "validate"
   /\ LastSelf.made.op = "object"
   /\ OneWrongKind(LastSelf.made, LastInput)) =>
     /\ ~last.threw
     /\ ~last.ret.valid
     /\ Len(last.ret.errors) = 1
     /\ last.ret.errors[1].keyword = "type"

\* object({a: string(), b: number()}).validate({a: "a", b: "a"}) has just
\* returned one error, at b.
OneErrorPerWrongKindWitness ==
  /\ last.op = "validate"
  /\ Len(LastSelf.made.keys) = 2
  /\ LastInput = JObj([a |-> JStr("a"), b |-> JStr("a")])
  /\ ~last.threw
  /\ ~last.ret.valid
  /\ last.ret.errors = <<Err("type", <<"b">>)>>

WithoutKeys(s, ks) == [k \in DOMAIN s \ ks |-> s[k]]

ObjectDocument(made) ==
  [type |-> "object",
   properties |-> [k \in SeqRange(made.keys) |->
                     made.args[CHOOSE n \in 1..Len(made.keys) : made.keys[n] = k]],
   required |-> SelectSeq(made.keys, LAMBDA k : k \notin SeqRange(made.optional))]

SchemaOfCalls ==
  /\ \A i \in MadeBy({"object"}) :
        SameSchema(WithoutKeys(getSchema(heap[i]), {"title"}),
                   ObjectDocument(heap[i].made))
  /\ \A i, j \in Validators :
        (/\ heap[i].made = heap[j].made
         /\ Has(getSchema(heap[i]), "title") = Has(getSchema(heap[j]), "title"))
          => SameSchema(getSchema(heap[i]), getSchema(heap[j]))

ReadsOnly ==
  last'.op \in {"getSchema", "isValid", "validate"} =>
     /\ Len(heap') = Len(heap)
     /\ \A i \in Validators : getSchema(heap'[i]) = getSchema(heap[i])
     /\ last'.op = "getSchema" =>
          /\ SameSchema(last'.ret.schema, getSchema(heap[last'.self]))
          /\ UNCHANGED <<heap, engines>>

Unpopulated(o) == ~o.getAjv.called /\ ~o.getCompiledSchema.called

SameCells(o, p) ==
  /\ o.getAjv = p.getAjv
  /\ o.getCompiledSchema = p.getCompiledSchema
  /\ o.compiles = p.compiles

LazyStep ==
  /\ last'.op \notin {"isValid", "validate"} => engines' = engines
  /\ \A i \in 1..Len(heap') :
        IF i > Len(heap) THEN Unpopulated(heap'[i]) /\ heap'[i].compiles = 0
        ELSE (last'.op \in {"isValid", "validate"} /\ last'.self = i)
               \/ SameCells(heap'[i], heap[i])
  /\ \A i \in 1..Len(heap') :
        (heap'[i].getAjv.called \/ heap'[i].getCompiledSchema.called)
           => heap'[i].first.set

\* C26: construction, combinators, getSchema, setSchemaMetaData and
\* withOptions create no engine and compile nothing; a validator's engine
\* and matcher cells are empty until its own first isValid or validate, and
\* validating a validator leaves the cells of every other validator,
\* its operands included, as they were.
LazyCompilation == [][LazyStep]_vars

\* An object validator built over the string validator, after getSchema and
\* a mutator call on it, has just been validated: it holds the only engine
\* and its operand's cells are empty.
LazyCompilationWitness ==
  /\ last.op \in {"isValid", "validate"}
  /\ ~last.threw
  /\ last.self > 1
  /\ LastSelf.made.op = "object"
  /\ Has(getSchema(LastSelf), "title")
  /\ ~Unpopulated(LastSelf)
  /\ engines = 1
  /\ SameSchema(LastSelf.made.args[1], getSchema(heap[1]))
  /\ Unpopulated(heap[1])

FailedBefore(o) == o.compiles > 0 /\ ~o.getCompiledSchema.called

\* The failure of compile leaves isValid and validate by a throw, with no
\* result.
CompileFailurePropagates ==
  (last.op \in {"isValid", "validate"} /\ ~WellFormed(getSchema(LastSelf))) =>
     /\ last.threw
     /\ last.ret = NoReturn

\* C27: when the engine cannot compile a validator's schema, isValid and
\* validate throw and return no result, and a later isValid or validate of
\* that validator does not run compile on the same schema again.
CompileNotRetried ==
  [][(last'.op \in {"isValid", "validate"}
        /\ ~WellFormed(getSchema(heap[last'.self]))) =>
       /\ last'.threw
       /\ last'.ret = NoReturn
       /\ FailedBefore(heap[last'.self]) =>
            heap'[last'.self].compiles = heap[last'.self].compiles]_vars

\* C28: no schema object is shared between two validators: the schema
\* object of a validator and the schema objects nested in it are all
\* distinct from those of every other validator.
NoSharedNodes ==
  \A i, j \in Validators : i # j => Nodes(heap[i]) \cap Nodes(heap[j]) = {}

BuiltAfterOptions ==
  /\ LastIsValid
  /\ last.self > 2
  /\ Has(LastSelf.made.args[1], "minItems")
  /\ ~last.threw
  /\ last.ret.value

\* What made accepts satisfies the operand schema c where the operand
\* stands: the value, every element up to upTo, the field a, every value
\* of the record, or the value unless the other alternative takes it.
EnforcedOn(made, x, upTo) ==
  LET c == made.args[1]
  IN CASE made.op \in {"nominal", "and"} -> Accepts(c, x)
       [] made.op = "array" ->
            /\ IsArray(x)
            /\ \A n \in 1..Len(x.v) : n <= upTo => Accepts(c, x.v[n])
       [] made.op = "object" ->
            /\ IsObject(x)
            /\ "a" \in DOMAIN x.v => Accepts(c, x.v["a"])
       [] made.op = "record" ->
            /\ IsObject(x)
            /\ \A k \in DOMAIN x.v : Accepts(c, x.v[k])
       [] made.op = "or" -> Accepts(c, x) \/ Accepts(made.args[2], x)

KeepsFirstVerdicts ==
  (LastIsValid /\ last.self = 1) =>
     /\ ~last.threw
     /\ last.ret.value = Accepts(LastSelf.first.schema, LastInput)

\* C29: a validator built from c after c was validated and then given
\* options enforces the options on the value c stands for (the value, every
\* element, the field, every record value), while c.isValid keeps the
\* verdicts of the schema c had at its first validation.
BuiltEnforcesOptions ==
  /\ BuiltAfterOptions => EnforcedOn(LastSelf.made, LastInput, Len(Inputs))
  /\ KeepsFirstVerdicts

\* The same with the options enforced on the first element only of what
\* array(c) accepts.
BuiltEnforcesOptionsFirst ==
  /\ BuiltAfterOptions => EnforcedOn(LastSelf.made, LastInput, 1)
  /\ KeepsFirstVerdicts

LastIsChainedOr ==
  /\ LastIsValid
  /\ LastSelf.made.op = "or"
  /\ DOMAIN LastSelf.made.args[1] = {"oneOf"}
  /\ Len(LastSelf.made.args[1]["oneOf"]) = 2

\* The operands a, b, c of a.or(b).or(c).
ChainOperands(made) ==
  <<made.args[1]["oneOf"][1], made.args[1]["oneOf"][2], made.args[2]>>

\* C30: a.or(b).or(c).isValid(x) equals union([a, b, c]).isValid(x).
ChainedOrIsUnion ==
  LastIsChainedOr =>
     /\ ~last.threw
     /\ last.ret.value =
          Accepts(union(ChainOperands(LastSelf.made)), LastInput)

\* What the chain computes: exactly one of a.or(b) and c accepts x.
ChainedOrIsNested ==
  LastIsChainedOr =>
     LET abc == ChainOperands(LastSelf.made)
         ab == Cardinality(Matching(<<abc[1], abc[2]>>, LastInput)) = 1
     IN /\ ~last.threw
        /\ last.ret.value = (ab # Accepts(abc[3], LastInput))

====
